---------------------------- MODULE Spec2Model ----------------------------
(***************************************************************************)
(* A model of scripts/common/area_plot.py.                                 *)
(*                                                                         *)
(* Each function of the file is modelled as the steps of one direct call   *)
(* with the parameters of its signature.  The module globals are the ones  *)
(* the file binds (rcParams, colors_order, over9, over8 and the            *)
(* functions): a name a function reads that is neither a parameter, a      *)
(* local bound before the read, nor one of these globals raises NameError  *)
(* (UnboundLocalError for a local), as it does in Python.  An exception    *)
(* ends the call: pc becomes "raised" and exc names the exception.         *)
(* The level argument of level_taxonomy is array-like (the function calls  *)
(* level.max() on it) and is kept as the set of its elements.              *)
(*                                                                         *)
(* Abundances are exact: a value is an integer number of units, a mean is  *)
(* kept as the numerator over the number of samples, and a normalised      *)
(* value as a numerator/denominator pair.                                  *)
(***************************************************************************)
EXTENDS Integers, Sequences, FiniteSets, TLC

VARIABLES
    fn,             \* the function the caller invoked
    pc,             \* position in that function (a label of the next line)
    exc,            \* the exception that ended the call, or "none"
    \* ---- make_area_plot
    group_thresh,   \* --group-thresh
    colormap_in,    \* --colormap as the caller passed it
    colormap,       \* the local variable colormap of make_area_plot
    stages,         \* the stages of the run executed so far, in order
    \* ---- level_taxonomy
    taxa,           \* the parsed taxonomy: one label path per row
    table,          \* the abundance table: one sample vector per row
    level,          \* the level argument (array-like; reduced by .max())
    consider_nan,   \* the consider_nan argument
    leveler,        \* the boolean row mask
    level_,         \* the concatenated, normalised, filtered table
    result,         \* the table level_taxonomy returns
    \* ---- profile_one_level / profile_joint_levels / plot_area
    collapsed,      \* the collapsed table the profile function works on
    params,         \* the thresholds and counts of the call
    top_taxa,       \* the selected rows (top_taxa, top_lo / new_taxa)
    upper_,         \* returned upper bounds
    lower_,         \* returned lower bounds
    bands           \* the bands plot_area has drawn

vars == <<fn, pc, exc, group_thresh, colormap_in, colormap, stages,
          taxa, table, level, consider_nan, leveler, level_, result,
          collapsed, params, top_taxa, upper_, lower_, bands>>

levelVars   == <<taxa, table, level, consider_nan, leveler, level_, result>>
profileVars == <<collapsed, params, top_taxa, upper_, lower_, bands>>
plotVars    == <<group_thresh, colormap_in, colormap, stages>>

-----------------------------------------------------------------------------
(* Bounds of the model.                                                    *)

MaxGroupThresh == 14
NegGroupThresh == 2

(* The colormap names the caller may pass: the members of over8 and some   *)
(* qualitative and sequential maps outside it.                             *)
Colormaps == {"Paired", "Paired_r", "Set3", "Set3_r", "Set1", "Pastel1",
              "Set2", "Accent", "Dark2", "viridis"}

-----------------------------------------------------------------------------
(* Python integers and booleans.                                           *)

(* bool is a subclass of int: True is 1 and False is 0.                    *)
PyBool(b) == IF b THEN 1 ELSE 0

(* ~x on an int: the two's complement inversion, -x - 1.                   *)
Invert(x) == (0 - x) - 1

(* x & y on ints of unbounded width, two's complement.                     *)
RECURSIVE BitAnd(_, _)
BitAnd(x, y) ==
    IF x = 0 \/ y = 0 THEN 0
    ELSE IF x = -1 THEN y
    ELSE IF y = -1 THEN x
    ELSE (x % 2) * (y % 2) + 2 * BitAnd((x - (x % 2)) \div 2, (y - (y % 2)) \div 2)

(* The truth value of an int in an if/elif condition.                      *)
Truthy(x) == x # 0

-----------------------------------------------------------------------------
(* Module globals.                                                         *)

over9 == {"Paired", "Paired_r", "Set3", "Set3_r"}

over8Narrow == over9
over8 == over9 \cup {"Set1", "Pastel1"}

MaxColors == 12

-----------------------------------------------------------------------------
(* make_area_plot                                                          *)

(* The conditions of the if / elif / elif chain, as written.               *)
CapCondOffByOne == group_thresh > MaxColors + 1
CapCond == group_thresh > MaxColors
Cond9   == Truthy(BitAnd(PyBool(group_thresh > 9), Invert(PyBool(colormap \in over9))))
Cond8   == Truthy(BitAnd(PyBool(group_thresh > 8), Invert(PyBool(colormap \in over8))))

Raise(e) == /\ pc' = "raised"
            /\ exc' = e

(* A variant in which the two mismatch branches warn, assign and go on.    *)
ValidateWarns ==
    /\ fn = "make_area_plot" /\ pc = "validate"
    /\ \/ /\ CapCond
          /\ Raise("ValueError")
          /\ UNCHANGED colormap
       \/ /\ ~CapCond /\ (Cond9 \/ Cond8)
          /\ colormap' = "Set3"
          /\ pc' = "read_table"
          /\ UNCHANGED exc
       \/ /\ ~CapCond /\ ~Cond9 /\ ~Cond8
          /\ pc' = "read_table"
          /\ UNCHANGED <<exc, colormap>>
    /\ UNCHANGED <<fn, group_thresh, colormap_in, stages, levelVars, profileVars>>

(* Lines 360-370.  A raise leaves the function: the assignment that        *)
(* follows it in the same branch is never executed.                        *)
Validate ==
    /\ fn = "make_area_plot" /\ pc = "validate"
    /\ \/ /\ CapCond
          /\ Raise("ValueError")
       \/ /\ ~CapCond /\ Cond9
          /\ Raise("Warning")
       \/ /\ ~CapCond /\ ~Cond9 /\ Cond8
          /\ Raise("Warning")
       \/ /\ ~CapCond /\ ~Cond9 /\ ~Cond8
          /\ pc' = "read_table"
          /\ UNCHANGED exc
    /\ UNCHANGED <<fn, group_thresh, colormap_in, colormap, stages, levelVars, profileVars>>

(* Line 374: table_ = pd.read_csv(table, sep='\t').                        *)
ReadTable ==
    /\ fn = "make_area_plot" /\ pc = "read_table"
    /\ stages' = Append(stages, "read")
    /\ pc' = "extract"
    /\ UNCHANGED <<fn, exc, group_thresh, colormap_in, colormap, levelVars, profileVars>>

(* Line 376: taxa_ = extract_label_array(table_, taxa_, tax_delim).  taxa_ *)
(* is a local of make_area_plot (it is assigned here) and is read as an    *)
(* argument before it is bound: UnboundLocalError.  Lines 379-400          *)
(* (collapse, threshold, colorize, plot, save) are never reached.          *)
ExtractLabels ==
    /\ fn = "make_area_plot" /\ pc = "extract"
    /\ Raise("UnboundLocalError")
    /\ UNCHANGED <<fn, group_thresh, colormap_in, colormap, stages, levelVars, profileVars>>

InitPlot ==
    /\ fn = "make_area_plot"
    /\ pc = "validate"
    /\ exc = "none"
    /\ group_thresh \in (0 - NegGroupThresh)..MaxGroupThresh
    /\ colormap_in \in Colormaps
    /\ colormap = colormap_in
    /\ stages = <<>>
    /\ taxa = <<>> /\ table = <<>> /\ level = {} /\ consider_nan = FALSE
    /\ leveler = <<>> /\ level_ = <<>> /\ result = <<>>
    /\ collapsed = <<>> /\ params = <<>> /\ top_taxa = <<>>
    /\ upper_ = <<>> /\ lower_ = <<>> /\ bands = <<>>

NextPlot == Validate \/ ReadTable \/ ExtractLabels

Spec == InitPlot /\ [][NextPlot]_vars

-----------------------------------------------------------------------------
(* Tables.                                                                 *)

MaxRows   == 3
MaxDepth  == 2
MaxLevel  == 2
MaxCount  == 1
NSamples  == 2

(* The taxonomic labels, in their lexicographic order.                     *)
LabelOrder == <<"a", "b">>
Labels     == {LabelOrder[i] : i \in DOMAIN LabelOrder}

Samples == 1..NSamples

MaxOf(S) == CHOOSE x \in S : \A y \in S : y <= x

RECURSIVE SumOver(_, _)
(* The sum of f[i] over the indices i in I.                                *)
SumOver(f, I) ==
    IF I = {} THEN 0
    ELSE LET i == CHOOSE j \in I : TRUE IN f[i] + SumOver(f, I \ {i})

(* All sequences over S of length lo..hi.                                  *)
SeqsOf(S, lo, hi) == UNION {[1..n -> S] : n \in lo..hi}

(* extract_label_array: a taxonomy string split at the delimiter gives one *)
(* label per column 0, 1, ...; a row with fewer labels than the longest    *)
(* row is NaN in the remaining columns.  A row is kept as the sequence of  *)
(* its labels, so column c of a row is its element c + 1.                  *)
Paths == SeqsOf(Labels, 1, MaxDepth)

(* The number of columns of the parsed taxonomy.                           *)
NCols(t) == MaxOf({Len(t[i]) : i \in DOMAIN t})

(* taxa[c].notna() for one row.                                            *)
NotNa(row, c) == c + 1 <= Len(row)

(* taxa.loc[row, cols] with cols = 0..lv.                                  *)
Prefix(row, lv) == SubSeq(row, 1, lv + 1)

-----------------------------------------------------------------------------
(* level_taxonomy                                                          *)

Rows == DOMAIN taxa

(* Line 72: level.max().                                                   *)
LevelMax == MaxOf(level)

(* Lines 73-76 without the column lookups failing on a missing column.     *)
LevelerLenient(lv) ==
    [i \in Rows |->
        IF consider_nan THEN NotNa(taxa[i], lv) /\ ~NotNa(taxa[i], lv + 1)
        ELSE NotNa(taxa[i], lv)]

(* Lines 72-76.  taxa[c] raises KeyError when c is not a column.           *)
ComputeLeveler ==
    /\ fn = "level_taxonomy" /\ pc = "leveler"
    /\ LET lv == LevelMax
           needed == IF consider_nan THEN lv + 1 ELSE lv
       IN  /\ level' = {lv}
           /\ \/ /\ needed >= NCols(taxa)
                 /\ Raise("KeyError")
                 /\ UNCHANGED leveler
              \/ /\ needed < NCols(taxa)
                 /\ leveler' = LevelerLenient(lv)
                 /\ pc' = "concat"
                 /\ UNCHANGED exc
    /\ UNCHANGED <<fn, taxa, table, consider_nan, level_, result, plotVars, profileVars>>

Selected == {i \in Rows : leveler[i]}

(* A relative abundance num/den; 0/0 is NaN.                               *)
Ratio(n, d) == <<n, d>>
IsNaN(v) == v[2] = 0

(* Lines 78-87: the labels of the rows kept, beside their counts divided   *)
(* by the column sums of the rows kept.  Rows keep the table's order.      *)
RECURSIVE Keep(_, _)
Keep(i, acc) ==
    IF i > Len(taxa) THEN acc
    ELSE IF leveler[i]
         THEN Keep(i + 1, Append(acc,
                [labels |-> Prefix(taxa[i], LevelMax),
                 vals   |-> [s \in Samples |->
                              Ratio(table[i][s],
                                    SumOver([j \in Rows |-> table[j][s]], Selected))]]))
         ELSE Keep(i + 1, acc)

ConcatLevel ==
    /\ fn = "level_taxonomy" /\ pc = "concat"
    /\ level_' = Keep(1, <<>>)
    /\ pc' = "index"
    /\ UNCHANGED <<fn, exc, taxa, table, level, consider_nan, leveler, result,
                   plotVars, profileVars>>

(* taxa.loc[leveler, cols].duplicated().any()                              *)
HasDuplicates(t) ==
    \E i, j \in DOMAIN t : i < j /\ t[i].labels = t[j].labels

(* Lexicographic order of two label paths of the same length.              *)
Rank(l) == CHOOSE i \in DOMAIN LabelOrder : LabelOrder[i] = l
RECURSIVE PathLess(_, _)
PathLess(p, q) ==
    IF p = <<>> \/ q = <<>> THEN FALSE
    ELSE IF Rank(Head(p)) # Rank(Head(q)) THEN Rank(Head(p)) < Rank(Head(q))
    ELSE PathLess(Tail(p), Tail(q))

(* groupby(cols).sum(): one row per distinct label path, in key order,     *)
(* the values of its members summed with NaN skipped.                      *)
GroupSum(t, key) ==
    LET members == {i \in DOMAIN t : t[i].labels = key}
        any     == CHOOSE i \in members : TRUE
    IN  [labels |-> key,
         vals   |-> [s \in Samples |->
                      IF IsNaN(t[any].vals[s]) THEN Ratio(0, 1)
                      ELSE Ratio(SumOver([i \in DOMAIN t |-> t[i].vals[s][1]], members),
                                 t[any].vals[s][2])]]

RECURSIVE SortedKeys(_)
SortedKeys(K) ==
    IF K = {} THEN <<>>
    ELSE LET m == CHOOSE k \in K : \A o \in K : ~PathLess(o, k)
         IN  <<m>> \o SortedKeys(K \ {m})

GroupBySum(t) ==
    LET keys == SortedKeys({t[i].labels : i \in DOMAIN t})
    IN  [k \in DOMAIN keys |-> GroupSum(t, keys[k])]

(* Lines 88-91.                                                            *)
ReturnLevel ==
    /\ fn = "level_taxonomy" /\ pc = "index"
    /\ \/ /\ HasDuplicates(level_)
          /\ result' = GroupBySum(level_)
       \/ /\ ~HasDuplicates(level_)
          /\ result' = level_
    /\ pc' = "returned"
    /\ UNCHANGED <<fn, exc, taxa, table, level, consider_nan, leveler, level_,
                   plotVars, profileVars>>

InitLevel ==
    /\ fn = "level_taxonomy"
    /\ pc = "leveler"
    /\ exc = "none"
    /\ taxa \in SeqsOf(Paths, 1, MaxRows)
    /\ table \in [DOMAIN taxa -> [Samples -> 0..MaxCount]]
    /\ level \in (SUBSET (0..MaxLevel)) \ {{}}
    /\ consider_nan \in BOOLEAN
    /\ leveler = <<>> /\ level_ = <<>> /\ result = <<>>
    /\ group_thresh = 0 /\ colormap_in = "" /\ colormap = "" /\ stages = <<>>
    /\ collapsed = <<>> /\ params = <<>> /\ top_taxa = <<>>
    /\ upper_ = <<>> /\ lower_ = <<>> /\ bands = <<>>

NextLevel == ComputeLeveler \/ ConcatLevel \/ ReturnLevel

SpecLevel == InitLevel /\ [][NextLevel]_vars

-----------------------------------------------------------------------------
(* Collapsed tables for the profile functions.                             *)

MaxThresh == 1
MaxTop    == 2

(* The index of a collapsed table: full label paths, columns 0..level.     *)
FullPaths == [1..MaxDepth -> Labels]

(* The last column of the index (level, hi_) and the grouping column lo_.  *)
LastCol == MaxDepth - 1
LoCol   == 0

ValueVecs == [Samples -> 0..MaxCount]
Absent    == <<>>

(* A collapsed table has a unique index; its rows are listed in key order. *)
TableOf(f) ==
    LET keys == SortedKeys({q \in FullPaths : f[q] # Absent})
    IN  [k \in DOMAIN keys |-> [labels |-> keys[k], vals |-> f[keys[k]]]]

(* The non-empty collapsed tables over the index values P.                 *)
CollapsedTables(P) ==
    {TableOf(f) : f \in [P -> ValueVecs \cup {Absent}]} \ {<<>>}

(* sort_values: the orders of the indices I in which no index comes before *)
(* one that it may not precede; CanPrecede is the set of the pairs <<x, y>> *)
(* with x allowed before y.  Rows that compare equal may come out in       *)
(* either order.                                                           *)
RECURSIVE SortedOrders(_, _)
SortedOrders(I, CanPrecede) ==
    IF I = {} THEN {<<>>}
    ELSE UNION {{<<m>> \o rest : rest \in SortedOrders(I \ {m}, CanPrecede)} :
                  m \in {x \in I : \A y \in I : <<x, y>> \in CanPrecede}}

(* DataFrame.mean(axis=1) of the sample columns, as the numerator over     *)
(* NSamples.                                                               *)
RowMean(vals) == SumOver(vals, Samples)

(* The label of a row in column c.                                         *)
LabelAt(row, c) == row.labels[c + 1]

-----------------------------------------------------------------------------
(* profile_one_level                                                       *)

(* Lines 113-116: the mean column, the rows sorted by it in descending     *)
(* order (rows of equal mean in any order), and the running count.         *)
OneSort ==
    /\ fn = "profile_one_level" /\ pc = "sort"
    /\ LET n == Len(collapsed)
           withMean == [i \in 1..n |->
                          [labels |-> collapsed[i].labels,
                           vals   |-> collapsed[i].vals,
                           mean   |-> RowMean(collapsed[i].vals)]]
           Descending == {ij \in (1..n) \X (1..n) :
                             withMean[ij[1]].mean >= withMean[ij[2]].mean}
       IN  \E q \in SortedOrders(1..n, Descending) :
              /\ collapsed' = [i \in 1..n |->
                                 [labels |-> withMean[q[i]].labels,
                                  vals   |-> withMean[q[i]].vals,
                                  mean   |-> withMean[q[i]].mean,
                                  count  |-> i]]
    /\ pc' = "select"
    /\ UNCHANGED <<fn, exc, params, top_taxa, upper_, lower_, bands, plotVars, levelVars>>

(* DataFrame.loc[mask]: the rows of t whose index is in mask, in order,    *)
(* from row i on.                                                          *)
RECURSIVE Filter(_, _, _)
Filter(t, mask, i) ==
    IF i > Len(t) THEN <<>>
    ELSE IF i \in mask THEN <<t[i]>> \o Filter(t, mask, i + 1)
    ELSE Filter(t, mask, i + 1)

(* Line 118.                                                               *)
Thresh_ ==
    {i \in DOMAIN collapsed :
        collapsed[i].mean > params.threshhold /\ collapsed[i].count <= params.count}

(* Lines 118-124: the rows passing both tests, without the helper columns, *)
(* indexed by the label of column `level` alone.                           *)
OneSelect ==
    /\ fn = "profile_one_level" /\ pc = "select"
    /\ LET sel == Filter(collapsed, Thresh_, 1)
       IN  top_taxa' = [i \in DOMAIN sel |->
                          [label |-> LabelAt(sel[i], LastCol), vals |-> sel[i].vals]]
    /\ pc' = "columns"
    /\ UNCHANGED <<fn, exc, collapsed, params, upper_, lower_, bands, plotVars, levelVars>>

(* Line 126: top_taxa[samples].  samples is not a parameter, a local or a  *)
(* module global: NameError.  Lines 130-133 are never reached.             *)
OneColumns ==
    /\ fn = "profile_one_level" /\ pc = "columns"
    /\ Raise("NameError")
    /\ UNCHANGED <<fn, profileVars, plotVars, levelVars>>

-----------------------------------------------------------------------------
(* profile_joint_levels                                                    *)

(* Lines 162-166: mean_hi, the index as columns, mean_lo (the sum of       *)
(* mean_hi over the rows with the same label in column lo_), and the rows  *)
(* sorted by (mean_lo, mean_hi) in descending order, rows equal in both    *)
(* in any order.                                                           *)
JointSort ==
    /\ fn = "profile_joint_levels" /\ pc = "sort"
    /\ LET n == Len(collapsed)
           mean_hi == [i \in 1..n |-> RowMean(collapsed[i].vals)]
           mean_lo_rep(g) ==
               SumOver(mean_hi, {i \in 1..n : LabelAt(collapsed[i], LoCol) = g})
           ext == [i \in 1..n |->
                     [labels  |-> collapsed[i].labels,
                      vals    |-> collapsed[i].vals,
                      mean_hi |-> mean_hi[i],
                      mean_lo |-> mean_lo_rep(LabelAt(collapsed[i], LoCol))]]
           Descending == {ij \in (1..n) \X (1..n) :
               \/ ext[ij[1]].mean_lo > ext[ij[2]].mean_lo
               \/ /\ ext[ij[1]].mean_lo = ext[ij[2]].mean_lo
                  /\ ext[ij[1]].mean_hi >= ext[ij[2]].mean_hi}
       IN  \E q \in SortedOrders(1..n, Descending) :
              collapsed' = [i \in 1..n |-> ext[q[i]]]
    /\ pc' = "thresh"
    /\ UNCHANGED <<fn, exc, params, top_taxa, upper_, lower_, bands, plotVars, levelVars>>

(* Line 168: 1 on the first row of each lo_ label, 0 on the others.        *)
FirstOfGroup(t, i) ==
    PyBool(~\E j \in 1..(i - 1) : LabelAt(t[j], LoCol) = LabelAt(t[i], LoCol))

(* Lines 168-176: the running number of lo_ labels met, the running count  *)
(* inside each lo_ label, and the two tests.                               *)
JointThresh ==
    /\ fn = "profile_joint_levels" /\ pc = "thresh"
    /\ LET n == Len(collapsed)
           count_lo == [i \in 1..n |->
                          SumOver([j \in 1..n |-> FirstOfGroup(collapsed, j)], 1..i)]
           count_hi == [i \in 1..n |->
                          Cardinality({j \in 1..i :
                              LabelAt(collapsed[j], LoCol) = LabelAt(collapsed[i], LoCol)})]
       IN  collapsed' = [i \in 1..n |->
              [labels    |-> collapsed[i].labels,
               vals      |-> collapsed[i].vals,
               mean_hi   |-> collapsed[i].mean_hi,
               mean_lo   |-> collapsed[i].mean_lo,
               count_lo  |-> count_lo[i],
               count_hi  |-> count_hi[i],
               thresh_lo |-> (collapsed[i].mean_lo > params.lo_thresh
                              /\ count_lo[i] <= params.lo_count),
               thresh_hi |-> (collapsed[i].mean_hi > params.hi_thresh
                              /\ count_hi[i] <= params.hi_count)]]
    /\ pc' = "group"
    /\ UNCHANGED <<fn, exc, params, top_taxa, upper_, lower_, bands, plotVars, levelVars>>

(* The numeric columns groupby(...).sum() adds up beside the samples.      *)
AuxCols == {"mean_hi", "mean_lo", "count_lo", "count_hi",
            "thresh_lo", "thresh_hi", "other"}

(* Lines 179-182 for one row of top_lo: 'other <lo_ label>', or the hi_    *)
(* label where thresh_hi holds.  The name is kept as a tuple.              *)
NewName(row) ==
    IF row.thresh_hi THEN <<LabelAt(row, LastCol)>>
    ELSE <<"other", LabelAt(row, LoCol)>>

AuxOf(row) ==
    [c \in AuxCols |->
        CASE c = "mean_hi"   -> row.mean_hi
          [] c = "mean_lo"   -> row.mean_lo
          [] c = "count_lo"  -> row.count_lo
          [] c = "count_hi"  -> row.count_hi
          [] c = "thresh_lo" -> PyBool(row.thresh_lo)
          [] c = "thresh_hi" -> PyBool(row.thresh_hi)
          [] c = "other"     -> PyBool(~(row.thresh_lo /\ ~row.thresh_hi))]

(* Line 178: the mask collapsed['thresh_lo'].                              *)
ThreshLo == {i \in DOMAIN collapsed : collapsed[i].thresh_lo}

(* Line 184: one row per (lo_ label, new_name), every numeric column       *)
(* summed over its members.  (The label columns that are not keys are      *)
(* strings, not numbers, and are left out.)                                *)
GroupByName(top_lo) ==
    LET keys == {<<LabelAt(top_lo[i], LoCol), NewName(top_lo[i])>> : i \in DOMAIN top_lo}
        members(k) == {i \in DOMAIN top_lo :
                          <<LabelAt(top_lo[i], LoCol), NewName(top_lo[i])>> = k}
    IN  {[lo       |-> k[1],
          new_name |-> k[2],
          vals     |-> [s \in Samples |->
                          SumOver([i \in DOMAIN top_lo |-> top_lo[i].vals[s]], members(k))],
          aux      |-> [c \in AuxCols |->
                          SumOver([i \in DOMAIN top_lo |-> AuxOf(top_lo[i])[c]], members(k))]]
         : k \in keys}

(* Lines 178-186: the rows passing thresh_lo, renamed, grouped and sorted  *)
(* by the summed (mean_lo, other, mean_hi) in descending order.            *)
JointGroup ==
    /\ fn = "profile_joint_levels" /\ pc = "group"
    /\ LET top_lo == Filter(collapsed, ThreshLo, 1)
           grouped == GroupByName(top_lo)
           Descending == {ab \in grouped \X grouped :
               LET a == ab[1].aux
                   b == ab[2].aux
               IN  \/ a["mean_lo"] > b["mean_lo"]
                   \/ /\ a["mean_lo"] = b["mean_lo"]
                      /\ \/ a["other"] > b["other"]
                         \/ /\ a["other"] = b["other"]
                            /\ a["mean_hi"] >= b["mean_hi"]}
       IN  \E new_taxa \in SortedOrders(grouped, Descending) :
              top_taxa' = new_taxa
    /\ pc' = "cumsum"
    /\ UNCHANGED <<fn, exc, collapsed, params, upper_, lower_, bands, plotVars, levelVars>>

(* DataFrame.cumsum() down the rows, column by column.                     *)
CumSum(t) ==
    [i \in DOMAIN t |->
        [lo       |-> t[i].lo,
         new_name |-> t[i].new_name,
         vals     |-> [s \in Samples |-> SumOver([j \in DOMAIN t |-> t[j].vals[s]], 1..i)],
         aux      |-> [c \in AuxCols |-> SumOver([j \in DOMAIN t |-> t[j].aux[c]], 1..i)]]]

(* new_taxa.cumsum() - new_taxa                                            *)
Minus(u, t) ==
    [i \in DOMAIN t |->
        [lo       |-> t[i].lo,
         new_name |-> t[i].new_name,
         vals     |-> [s \in Samples |-> u[i].vals[s] - t[i].vals[s]],
         aux      |-> [c \in AuxCols |-> u[i].aux[c] - t[i].aux[c]]]]

(* Lines 188-191.                                                          *)
JointReturn ==
    /\ fn = "profile_joint_levels" /\ pc = "cumsum"
    /\ upper_' = CumSum(top_taxa)
    /\ lower_' = Minus(CumSum(top_taxa), top_taxa)
    /\ pc' = "returned"
    /\ UNCHANGED <<fn, exc, collapsed, params, top_taxa, bands, plotVars, levelVars>>

-----------------------------------------------------------------------------
(* define_single_cmap and plot_area                                        *)

(* Lines 200-202: {tax: map_(i) for i, tax in enumerate(top_taxa.index)}:  *)
(* a label met again takes the later colour.                               *)
define_single_cmap(t) ==
    [k \in {<<t[i].lo, t[i].new_name>> : i \in DOMAIN t} |->
        MaxOf({i \in DOMAIN t : <<t[i].lo, t[i].new_name>> = k}) - 1]

(* Lines 253-258, for the caller that passes on what profile_joint_levels  *)
(* returned.  The figure is created; then len(top_.columns) reads top_,    *)
(* which is not a parameter, a local or a module global: NameError.  The   *)
(* loop of lines 259-264 is never reached and no band is drawn.            *)
plot_area ==
    /\ fn = "profile_joint_levels" /\ pc = "returned"
    /\ fn' = "plot_area"
    /\ bands' = <<>>
    /\ Raise("NameError")
    /\ UNCHANGED <<collapsed, params, top_taxa, upper_, lower_, plotVars, levelVars>>

InitProfile ==
    /\ fn \in {"profile_one_level", "profile_joint_levels"}
    /\ pc = "sort"
    /\ exc = "none"
    /\ collapsed \in CollapsedTables(FullPaths)
    /\ \/ /\ fn = "profile_one_level"
          /\ params \in [threshhold : 0..MaxThresh, count : 0..MaxTop]
       \/ /\ fn = "profile_joint_levels"
          /\ params \in [lo_thresh : 0..MaxThresh, hi_thresh : 0..MaxThresh,
                         lo_count : 1..MaxTop, hi_count : 1..MaxTop]
    /\ top_taxa = <<>> /\ upper_ = <<>> /\ lower_ = <<>> /\ bands = <<>>
    /\ group_thresh = 0 /\ colormap_in = "" /\ colormap = "" /\ stages = <<>>
    /\ taxa = <<>> /\ table = <<>> /\ level = {} /\ consider_nan = FALSE
    /\ leveler = <<>> /\ level_ = <<>> /\ result = <<>>

NextProfile ==
    \/ OneSort \/ OneSelect \/ OneColumns
    \/ JointSort \/ JointThresh \/ JointGroup \/ JointReturn
    \/ plot_area

SpecProfile == InitProfile /\ [][NextProfile]_vars

-----------------------------------------------------------------------------
(* Properties of make_area_plot, checked under Spec.                       *)

Over9Names == {"Paired", "Paired_r", "Set3", "Set3_r"}
Over8Names == {"Paired", "Paired_r", "Set3", "Set3_r", "Set1", "Pastel1"}

ValidationDone   == fn = "make_area_plot" /\ pc # "validate"
ValidationPassed == ValidationDone /\ exc \notin {"ValueError", "Warning"}

(* The requested number of groups is within the hard cap and exceeds what  *)
(* the colormap the caller selected can show.                              *)
Mismatch ==
    /\ group_thresh <= 12
    /\ \/ group_thresh > 9 /\ colormap_in \notin Over9Names
       \/ group_thresh > 8 /\ colormap_in \notin Over8Names

(* C1: with group_thresh > 12, whatever the colormap, the run ends in      *)
(* validation with ValueError: the table is never read and no later stage  *)
(* (collapse, threshold, colorize, plot, save) is executed.                *)
C1_HardCapRaises ==
    (group_thresh > 12 /\ ValidationDone)
        => (pc = "raised" /\ exc = "ValueError" /\ stages = <<>>)

C1_Witness == group_thresh > 12 /\ pc = "raised" /\ exc = "ValueError"

(* C2: when group_thresh (at most 12) exceeds what the selected colormap   *)
(* can show, the colormap defaults to Set3 and the run goes on: it is not  *)
(* ended by an exception, and from validation on the colours come from     *)
(* Set3.                                                                   *)
C2_DefaultsToSet3 ==
    Mismatch => (pc # "raised" /\ (ValidationDone => colormap = "Set3"))

(* C5: in every run that takes a capacity-mismatch branch the function     *)
(* leaves by raising Warning; the colormap variable keeps the value the    *)
(* caller passed and no stage (read, collapse, ..., save) is reached.      *)
C5_FallbackHasNoEffect ==
    Mismatch =>
        /\ colormap = colormap_in
        /\ ValidationDone => (pc = "raised" /\ exc = "Warning" /\ stages = <<>>)

C5_Witness ==
    Mismatch /\ pc = "raised" /\ exc = "Warning" /\ colormap_in # "Set3"

(* C6: the conditions written with & and ~ decide as the logical           *)
(* conditions do, so validation passes exactly when group_thresh <= 8, or  *)
(* group_thresh = 9 with a colormap in over8, or 10 <= group_thresh <= 12  *)
(* with a colormap in over9; Set3 passes for every group_thresh up to 12.  *)
C6_BitwiseDecidesAsLogical ==
    fn = "make_area_plot" =>
        /\ Cond9 <=> (group_thresh > 9 /\ colormap \notin Over9Names)
        /\ Cond8 <=> (group_thresh > 8 /\ colormap \notin Over8Names)
        /\ ValidationDone =>
              (ValidationPassed <=>
                  \/ group_thresh <= 8
                  \/ group_thresh = 9 /\ colormap_in \in Over8Names
                  \/ group_thresh \in 10..12 /\ colormap_in \in Over9Names)
        /\ (ValidationDone /\ colormap_in = "Set3" /\ group_thresh <= 12)
              => ValidationPassed

C6_Witness ==
    group_thresh = 9 /\ colormap_in = "Pastel1" /\ pc = "read_table"

-----------------------------------------------------------------------------
(* Properties of level_taxonomy, checked under SpecLevel.                  *)

LevelEnded == fn = "level_taxonomy" /\ pc \in {"returned", "raised"}

(* The rows the rule retains: a label at column level and, when            *)
(* consider_nan is true, no label at column level + 1.                     *)
RuleRows ==
    {i \in Rows : /\ NotNa(taxa[i], LevelMax)
                  /\ consider_nan => ~NotNa(taxa[i], LevelMax + 1)}

(* The returned table has exactly one row per distinct label path of the   *)
(* rows in I, holding the sum of their counts.                             *)
CollapsesRows(I) ==
    /\ {result[k].labels : k \in DOMAIN result} = {Prefix(taxa[i], LevelMax) : i \in I}
    /\ \A k, l \in DOMAIN result : result[k].labels = result[l].labels => k = l
    /\ \A k \in DOMAIN result : \A s \in Samples :
          ~IsNaN(result[k].vals[s]) =>
              result[k].vals[s][1] =
                  SumOver([i \in Rows |-> table[i][s]],
                          {i \in I : Prefix(taxa[i], LevelMax) = result[k].labels})

(* C7: for a level that is a column of the taxonomy, level_taxonomy        *)
(* returns the table of the rows the rule retains, rows of equal label     *)
(* path summed into one, with a unique index.                              *)
C7_RetainsByRule ==
    (LevelEnded /\ LevelMax < NCols(taxa))
        => (pc = "returned" /\ CollapsesRows(RuleRows))

-----------------------------------------------------------------------------
(* Properties of the profile functions and plot_area, checked under        *)
(* SpecProfile.                                                            *)

OneEnded == fn = "profile_one_level" /\ pc \in {"returned", "raised"}

Min(a, b) == IF a <= b THEN a ELSE b

(* The rows of `rows` follow the display rule with respect to the table    *)
(* `all`: mean above the threshold and among the top `count` by mean.      *)
FollowsDisplayRule(rows, all) ==
    LET above == {i \in DOMAIN all : RowMean(all[i].vals) > params.threshhold}
        shown(i) == \E k \in DOMAIN rows :
                        rows[k].label = LabelAt(all[i], LastCol)
                        /\ rows[k].vals = all[i].vals
    IN  /\ Len(rows) = Min(params.count, Cardinality(above))
        /\ \A k \in DOMAIN rows :
              \E i \in above : rows[k] = [label |-> LabelAt(all[i], LastCol),
                                          vals  |-> all[i].vals]
        /\ \A k, l \in DOMAIN rows :
              k < l => RowMean(rows[k].vals) >= RowMean(rows[l].vals)
        /\ \A i, j \in DOMAIN all :
              (shown(j) /\ ~shown(i)) => RowMean(all[i].vals) <= RowMean(all[j].vals)

(* C3: profile_one_level returns the taxa with mean above the threshold    *)
(* that are among the top `count` by mean: min(count, number above the     *)
(* threshold) rows, in non-increasing order of mean, none of the excluded  *)
(* having a greater mean than an included one.                             *)
C3_DisplaysTopTaxa ==
    OneEnded =>
        /\ pc = "returned"
        /\ Len(upper_) = Len(top_taxa)
        /\ FollowsDisplayRule(top_taxa, collapsed)

(* profile_joint_levels has returned (and plot_area may have been called   *)
(* with what it returned).                                                 *)
JointReturned ==
    \/ fn = "profile_joint_levels" /\ pc = "returned"
    \/ fn = "plot_area"

(* The rows of the input table and of the returned table in group g.       *)
MembersOf(g) == {i \in DOMAIN collapsed : LabelAt(collapsed[i], LoCol) = g}
OutputOf(g)  == {k \in DOMAIN top_taxa : top_taxa[k].lo = g}
KeptGroups   == {top_taxa[k].lo : k \in DOMAIN top_taxa}
GroupMean(g) ==
    SumOver([i \in DOMAIN collapsed |-> RowMean(collapsed[i].vals)], MembersOf(g))

(* The output rows of group g under their own name, its 'other' rows, and  *)
(* the members of g that do not appear under their own name.               *)
OwnName(g)   == {k \in OutputOf(g) : Len(top_taxa[k].new_name) = 1}
OtherRows(g) == {k \in OutputOf(g) : top_taxa[k].new_name = <<"other", g>>}
Remaining(g) ==
    {i \in MembersOf(g) :
        ~\E k \in OwnName(g) : top_taxa[k].new_name = <<LabelAt(collapsed[i], LastCol)>>}

(* C4: profile_joint_levels keeps at most lo_count groups, each with a     *)
(* group mean above lo_thresh; in a kept group at most hi_count taxa keep  *)
(* their own name, each with mean above hi_thresh; the remaining members   *)
(* are one row 'other <group>' holding their sum; so each kept group has   *)
(* the same total in every sample before and after.                        *)
C4_GroupsKeptWhole ==
    JointReturned =>
        /\ Cardinality(KeptGroups) <= params.lo_count
        /\ \A g \in KeptGroups :
              /\ GroupMean(g) > params.lo_thresh
              /\ Cardinality(OwnName(g)) <= params.hi_count
              /\ \A k \in OwnName(g) : RowMean(top_taxa[k].vals) > params.hi_thresh
              /\ OutputOf(g) = OwnName(g) \cup OtherRows(g)
              /\ Cardinality(OtherRows(g)) = (IF Remaining(g) = {} THEN 0 ELSE 1)
              /\ \A k \in OtherRows(g) : \A s \in Samples :
                    top_taxa[k].vals[s] =
                        SumOver([i \in DOMAIN collapsed |-> collapsed[i].vals[s]],
                                Remaining(g))
              /\ \A s \in Samples :
                    SumOver([k \in DOMAIN top_taxa |-> top_taxa[k].vals[s]], OutputOf(g))
                    = SumOver([i \in DOMAIN collapsed |-> collapsed[i].vals[s]],
                              MembersOf(g))

(* upper_ and lower_ stack the rows of t without gap or overlap.           *)
IsStack(t) ==
    /\ Len(upper_) = Len(t) /\ Len(lower_) = Len(t)
    /\ \A i \in DOMAIN t : \A s \in Samples :
          /\ lower_[i].vals[s] = (IF i = 1 THEN 0 ELSE upper_[i - 1].vals[s])
          /\ upper_[i].vals[s] - lower_[i].vals[s] = t[i].vals[s]
          /\ i > 1 => upper_[i - 1].vals[s] <= upper_[i].vals[s]

PlotEnded == fn = "plot_area" /\ pc \in {"returned", "raised"}

(* One band per row of upper_, between the row's lower and upper bound     *)
(* (drawn at 1 - lower and 1 - upper), in the colour of the row's label.   *)
BandsOf(colors) ==
    [i \in DOMAIN upper_ |->
        [label |-> <<upper_[i].lo, upper_[i].new_name>>,
         y1    |-> lower_[i].vals,
         y2    |-> upper_[i].vals,
         color |-> colors[<<upper_[i].lo, upper_[i].new_name>>]]]

(* C8: the returned upper and lower tables are a gap-free, non-overlapping *)
(* stack, and plot_area draws exactly one band per row of upper_, between  *)
(* its lower and upper bound, in the colour mapped to the row's label.     *)
C8_StackDrawnBandPerRow ==
    /\ JointReturned => IsStack(top_taxa)
    /\ (fn = "profile_one_level" /\ pc = "returned") => IsStack(top_taxa)
    /\ PlotEnded => bands = BandsOf(define_single_cmap(upper_))

=============================================================================
